---------------------------- MODULE Spec2Model ----------------------------
(***************************************************************************)
(* City Energy Analyst: the network-layout orchestrator                    *)
(* (cea/concept_project/network_layout_main.py) and the ArcGIS toolbox     *)
(* adapter (cea/interfaces/arcgis/CityEnergyAnalyst.py).                   *)
(*                                                                         *)
(* Three state machines share this module, one specification each:         *)
(*   SpecLayout  one call of network_layout                                *)
(*   SpecTool    DemandTool.updateMessages / DemandTool.execute and the    *)
(*               helpers that shell out to the CLI                         *)
(*   SpecRunCli  run_cli's pipe protocol with its child process            *)
(* Text is a sequence of one-character strings, so that strip, rstrip and  *)
(* endswith are computed and not assumed.                                  *)
(***************************************************************************)
EXTENDS Naturals, Sequences, FiniteSets, TLC

VARIABLES
    \* ---- network_layout ----
    nl_pc,          \* position of the call: idle, substation, connectivity, steiner, returned, raised
    nl_locals,      \* the local variables of network_layout (lines 20-33), None before the call
    stage_calls,    \* the stage functions invoked so far, in order: [fn, args]
    written,        \* the files on disk written by the stages
    nl_failed,      \* the stage whose error left network_layout, None when none did
    \* ---- toolbox adapter ----
    pth_exists,     \* ~/cea_python.pth can be opened and read
    disk,           \* the paths for which os.path.exists is True
    registry,       \* the weather names the CLI has registered, as 'weather-files' lists them
    handler,        \* the DemandTool method running: idle, getParameterInfo, updateMessages, execute
    pc,             \* its position
    parameters,     \* <<scenario_path, weather_name>> as valueAsText gives them
    locals,         \* the handler's local variables
    helper_log,     \* one record per helper call that ended: how it ended, what it returned
    children,       \* the child processes spawned so far: [args, status, stdout]
    error_message,  \* what setErrorMessage put on parameters[0], None when nothing
    \* ---- run_cli and its child ----
    script,         \* what the child will write: a sequence of [fd, line]
    cpc,            \* index of the child's next write
    stdout_pipe,    \* lines written to stdout and not read yet: [line, src]
    stderr_pipe,    \* lines written to stderr and not read yet
    stdout_closed,  \* the child's end of stdout is closed: a read of the empty pipe gives ''
    exited,         \* process.poll() is not None
    ppc,            \* position of run_cli: readline, test, communicate, returned
    next_line,      \* run_cli's local next_line, with the write it came from (0: none)
    messages,       \* the calls of add_message so far: [via, msg, src], src the writes msg carries
    spins           \* iterations of the loop that read '' before the child had exited

layoutVars == <<nl_pc, nl_locals, stage_calls, written, nl_failed>>
toolVars == <<pth_exists, disk, registry, handler, pc, parameters, locals, helper_log, children, error_message>>
cliVars == <<script, cpc, stdout_pipe, stderr_pipe, stdout_closed, exited, ppc, next_line, messages, spins>>
vars == <<layoutVars, toolVars, cliVars>>

None == "None"

(***************************************************************************)
(* Text                                                                    *)
(***************************************************************************)
\* str.rstrip()/str.strip() with no argument remove whitespace
IsSpace(c) == c \in {" ", "\n", "\r", "\t"}

RECURSIVE rstrip(_)
rstrip(s) ==
    IF s = <<>> THEN s
    ELSE IF IsSpace(s[Len(s)]) THEN rstrip(SubSeq(s, 1, Len(s) - 1))
    ELSE s

RECURSIVE lstrip(_)
lstrip(s) ==
    IF s = <<>> THEN s
    ELSE IF IsSpace(s[1]) THEN lstrip(Tail(s))
    ELSE s

strip(s) == lstrip(rstrip(s))

endswith(s, suffix) ==
    /\ Len(s) >= Len(suffix)
    /\ SubSeq(s, Len(s) - Len(suffix) + 1, Len(s)) = suffix

Last(s) == s[Len(s)]

(***************************************************************************)
(* network_layout                                                          *)
(***************************************************************************)
\* The scenarios a locator may stand for, and the values the arguments and the
\* configuration are drawn from.
Scenarios == {"baseline", "retrofit"}
InputPathNames == {"streets", "roads"}
OutputNames == {"", "opt"}
NetworkTypes == {"DH", "DC"}
PlantBuildingNames == {<<>>, <<"B01">>}

\* A path is an opaque function of its root (the locator's scenario, or ~), the
\* method that gives it and the pieces joined to it.
Locate(scenario, method, args) == <<scenario, method, args>>

\* The configuration object: the values network_layout reads from it.
Configuration(type_network, looped) ==
    [type_mat |-> "T1", pipe_diameter |-> "DN150", network_type |-> type_network,
     create_plant |-> TRUE, buildings |-> <<"B01", "B02">>,
     allow_looped_networks |-> looped, disconnected_buildings |-> <<"B09">>]

\* Lines 20-33 and 43-48: the local variables.
Locals(config, scenario, plant_building_names, input_path_name, output_name_network, optimization_flag) ==
    [weight_field |-> "Shape_Leng",
     type_mat_default |-> config.type_mat,
     pipe_diameter_default |-> config.pipe_diameter,
     type_network |-> config.network_type,
     create_plant |-> config.create_plant,
     input_buildings_shp |-> Locate(scenario, "get_zone_geometry", <<>>),
     connected_buildings |-> config.buildings,
     output_substations_shp |-> Locate(scenario, "get_temporary_file", <<"nodes_buildings.shp">>),
     input_paths_shp |-> Locate(scenario, "get_electric_networks_folder", <<"/", input_path_name, ".shp">>),
     path_potential_network |-> Locate(scenario, "get_temporary_file", <<"potential_network.shp">>),
     path_default_arcgis_db |-> Locate("~", "expanduser", <<"Documents", "ArcGIS", "Default.gdb">>),
     total_demand_location |-> Locate(scenario, "get_total_demand", <<>>),
     output_edges |-> Locate(scenario, "get_network_layout_edges_shapefile", <<config.network_type, output_name_network>>),
     output_nodes |-> Locate(scenario, "get_network_layout_nodes_shapefile", <<config.network_type, output_name_network>>),
     output_network_folder |-> Locate(scenario, "get_input_network_folder", <<config.network_type, output_name_network>>),
     disconnected_building_names |-> config.disconnected_buildings,
     allow_looped_networks |-> config.allow_looped_networks,
     optimization_flag |-> optimization_flag,
     plant_building_names |-> plant_building_names]

\* The argument lists of the three stage calls, positional as in the source.
SubstationArgsSwapped(l) ==
    <<l.output_substations_shp, l.input_buildings_shp, l.connected_buildings>>

SubstationArgs(l) ==
    <<l.input_buildings_shp, l.output_substations_shp, l.connected_buildings>>

ConnectivityArgs(l) ==
    <<l.path_default_arcgis_db, l.input_paths_shp, l.output_substations_shp, l.path_potential_network>>

SteinerArgs(l) ==
    <<l.path_potential_network, l.output_network_folder, l.output_substations_shp, l.output_edges,
      l.output_nodes, l.weight_field, l.type_mat_default, l.pipe_diameter_default, l.type_network,
      l.total_demand_location, l.create_plant, l.allow_looped_networks,
      l.optimization_flag, l.plant_building_names, l.disconnected_building_names>>

StageOrder == <<"calc_substation_location", "calc_connectivity_network", "calc_steiner_spanning_tree">>

\* The files a stage writes when it is called with args: its output arguments.
StageWrites(fn, args) ==
    CASE fn = "calc_substation_location" -> {args[2]}
      [] fn = "calc_connectivity_network" -> {args[4]}
      [] fn = "calc_steiner_spanning_tree" -> {args[4], args[5]}

\* Where control goes when the stage at position pos raises: out of
\* network_layout, which has no try around its stage calls.
OnStageErrorSwallowed(pos) ==
    CASE pos = "substation" -> "connectivity"
      [] pos = "connectivity" -> "steiner"
      [] pos = "steiner" -> "returned"

OnStageError(pos) == "raised"

\* network_layout is entered: lines 18-33 (the locals of lines 43-48 are pure
\* and computed here as well).
NetworkLayoutCall ==
    /\ nl_pc = "idle"
    /\ \E scenario \in Scenarios, input_path_name \in InputPathNames,
          output_name_network \in OutputNames, type_network \in NetworkTypes,
          plant_building_names \in PlantBuildingNames, flag \in BOOLEAN :
          nl_locals' = Locals(Configuration(type_network, flag), scenario, plant_building_names,
                              input_path_name, output_name_network, flag)
    /\ nl_pc' = "substation"
    /\ UNCHANGED <<stage_calls, written, nl_failed>>
    /\ UNCHANGED <<toolVars, cliVars>>

\* One stage call: the stage is invoked with its arguments and either returns,
\* having written its outputs, or raises, having written some of them or none.
StageReturns(pos, fn, args, next) ==
    /\ nl_pc = pos
    /\ stage_calls' = Append(stage_calls, [fn |-> fn, args |-> args])
    /\ written' = written \cup StageWrites(fn, args)
    /\ nl_pc' = next
    /\ UNCHANGED <<nl_locals, nl_failed>>
    /\ UNCHANGED <<toolVars, cliVars>>

StageRaises(pos, fn, args) ==
    /\ nl_pc = pos
    /\ stage_calls' = Append(stage_calls, [fn |-> fn, args |-> args])
    /\ \E partial \in SUBSET StageWrites(fn, args) :
          written' = written \cup partial
    /\ nl_failed' = fn
    /\ nl_pc' = OnStageError(pos)
    /\ UNCHANGED nl_locals
    /\ UNCHANGED <<toolVars, cliVars>>

\* line 36
CalcSubstationLocation ==
    \/ StageReturns("substation", StageOrder[1], SubstationArgs(nl_locals), "connectivity")
    \/ StageRaises("substation", StageOrder[1], SubstationArgs(nl_locals))

\* lines 39-40
CalcConnectivityNetwork ==
    \/ StageReturns("connectivity", StageOrder[2], ConnectivityArgs(nl_locals), "steiner")
    \/ StageRaises("connectivity", StageOrder[2], ConnectivityArgs(nl_locals))

\* lines 43-52
CalcSteinerSpanningTree ==
    \/ StageReturns("steiner", StageOrder[3], SteinerArgs(nl_locals), "returned")
    \/ StageRaises("steiner", StageOrder[3], SteinerArgs(nl_locals))

InitLayout ==
    /\ nl_pc = "idle"
    /\ nl_locals = None
    /\ stage_calls = <<>>
    /\ written = {}
    /\ nl_failed = None

NextLayout ==
    \/ NetworkLayoutCall
    \/ CalcSubstationLocation
    \/ CalcConnectivityNetwork
    \/ CalcSteinerSpanningTree

(***************************************************************************)
(* The toolbox adapter: the world outside it                               *)
(***************************************************************************)
\* Python's None where a text is expected (valueAsText of an empty parameter,
\* a helper that returned nothing).
PyNone == <<"None">>

EPW == <<".", "e", "p", "w">>
CRLF == <<"\r", "\n">>

\* Weather names the CLI may list, and what the user may type instead.
NameZ == <<"Z">>
NameN == <<"n">> \o EPW
DefaultName == <<"d", "e", "f", "a", "u", "l", "t">>
FileA == <<"a">> \o EPW
FileB == <<"b">> \o EPW
FileT == <<"a", ".", "t", "x", "t">>
Unknown == <<"q">>
WeatherArgs == {NameZ, NameN, FileA, FileB, FileT, Unknown}

\* Scenario folders.
ScenS == <<"s">>
ScenT == <<"t">>
ScenarioArgs == {ScenS, ScenT, PyNone}

RadiationFile(scenario_path) == scenario_path \o <<"/", "r">>
SurfaceFile(scenario_path) == scenario_path \o <<"/", "p">>

\* The lists 'weather-files' may print, and the disks the tool may find.
Registries == {<<NameZ>>, <<NameZ, NameN>>}
DiskChoices ==
    {{FileT} \cup extra :
        extra \in SUBSET {ScenS, RadiationFile(ScenS), SurfaceFile(ScenS), FileA, NameN}}

ExitStatuses == {0, 1}
PythonExe == <<"p", "y">>

SeqToSet(s) == {s[i] : i \in 1..Len(s)}

RECURSIVE Concat(_)
Concat(ss) == IF ss = <<>> THEN <<>> ELSE Head(ss) \o Concat(Tail(ss))

\* What 'python -m cea.cli --scenario <path> <cmd> <arg>' prints when it succeeds:
\* the external interfaces of the CLI.
CliStdout(scenario_path, cmd, arg) ==
    CASE cmd = "weather-files" -> Concat([i \in 1..Len(registry) |-> registry[i] \o CRLF])
      [] cmd = "weather-path" ->
            IF arg = DefaultName THEN <<"/", "D">> \o EPW \o CRLF
            ELSE IF arg \in SeqToSet(registry) THEN <<"/">> \o arg \o EPW \o CRLF
            ELSE <<>>
      [] cmd = "locate" ->
            IF arg = <<"get_radiation">> THEN RadiationFile(scenario_path) \o CRLF
            ELSE SurfaceFile(scenario_path) \o CRLF
      [] OTHER -> <<>>

\* A child ends with an exit status; one that fails may have printed its output
\* or nothing.
ChildOutcomes(scenario_path, cmd, arg) ==
    {[status |-> 0, stdout |-> CliStdout(scenario_path, cmd, arg)]}
    \cup {[status |-> st, stdout |-> out] :
            st \in ExitStatuses \ {0},
            out \in {<<>>, CliStdout(scenario_path, cmd, arg)}}

\* file.readline() until '': the lines of a text, each with its line end.
RECURSIVE SplitLines(_)
SplitLines(text) ==
    IF text = <<>> THEN <<>>
    ELSE LET ends == {i \in 1..Len(text) : text[i] = "\n"}
             cut == IF ends = {} THEN Len(text)
                    ELSE CHOOSE i \in ends : \A j \in ends : i <= j
         IN <<SubSeq(text, 1, cut)>> \o SplitLines(SubSeq(text, cut + 1, Len(text)))

(***************************************************************************)
(* The helpers that shell out                                              *)
(***************************************************************************)
\* get_python_exe, lines 144-151: the interpreter, or the AssertionError.
GetPythonExeDefaulted(exists) == [raised |-> None, value |-> PythonExe]

GetPythonExe(exists) ==
    IF exists THEN [raised |-> None, value |-> PythonExe]
    ELSE [raised |-> "AssertionError", value |-> PyNone]

\* subprocess.check_output, lines 159-162: the status decides, then strip().
CheckOutputIgnoringStatus(child) == [raised |-> None, result |-> strip(child.stdout)]

CheckOutput(child) ==
    IF child.status # 0 THEN [raised |-> "CalledProcessError", result |-> PyNone]
    ELSE [raised |-> None, result |-> strip(child.stdout)]

\* get_weather_names_inner, lines 120-125: every line read, rstrip()ped.
WeatherNamesOf(stdout) ==
    LET lines == SplitLines(stdout) IN [i \in 1..Len(lines) |-> rstrip(lines[i])]

Command(exe, scenario_path, cmd, arg) ==
    [exe |-> exe, scenario |-> scenario_path, cmd |-> cmd, arg |-> arg]

Ended(helper, raised, result, child) ==
    [helper |-> helper, raised |-> raised, result |-> result, child |-> child]

\* _cli_output, lines 154-162, called as helper: sets helper_log' and children'.
CliOutput(helper, scenario_path, cmd, arg) ==
    LET exe == GetPythonExe(pth_exists) IN
    IF exe.raised # None
    THEN /\ helper_log' = Append(helper_log, Ended(helper, exe.raised, PyNone, 0))
         /\ children' = children
    ELSE \E o \in ChildOutcomes(scenario_path, cmd, arg) :
            LET child == [args |-> Command(exe.value, scenario_path, cmd, arg),
                          status |-> o.status, stdout |-> o.stdout]
                r == CheckOutput(child)
            IN /\ children' = Append(children, child)
               /\ helper_log' = Append(helper_log,
                                       Ended(helper, r.raised, r.result, Len(children) + 1))

\* get_weather, lines 129-131
GetWeather(weather_name) ==
    CliOutput("get_weather", <<>>, "weather-path", weather_name)

\* get_radiation, lines 134-136
GetRadiation(scenario_path) ==
    CliOutput("get_radiation", scenario_path, "locate", <<"get_radiation">>)

\* get_surface_properties, lines 139-141
GetSurfaceProperties(scenario_path) ==
    CliOutput("get_surface_properties", scenario_path, "locate", <<"get_surface_properties">>)

(***************************************************************************)
(* DemandTool                                                              *)
(***************************************************************************)
ScenarioNotFound == "Scenario folder not found"
NoRadiation == "No radiation data found for scenario. Run radiation script first."

\* lines 83-86: the two checks are two if statements, not if/elif.
NextAfterRadiationElif(missing) == IF missing THEN "returned" ELSE "surface"

NextAfterRadiation(missing) == "surface"

\* lines 92-97: which branch resolves the weather argument.
ResolveBranchNeverLiteral(weather_name, names, exists) ==
    IF weather_name \in SeqToSet(names) THEN "lookup" ELSE "default"

ResolveBranchOr(weather_name, names, exists) ==
    IF weather_name \in SeqToSet(names) THEN "lookup"
    ELSE IF exists \/ endswith(weather_name, EPW) THEN "literal"
    ELSE "default"

ResolveBranch(weather_name, names, exists) ==
    IF weather_name \in SeqToSet(names) THEN "lookup"
    ELSE IF exists /\ endswith(weather_name, EPW) THEN "literal"
    ELSE "default"

\* line 93: the name the lookup is made with.
LookupNameDefault(weather_name) == DefaultName

LookupName(weather_name) == weather_name

\* updateMessages, lines 76-82: up to the first query.
UpdateMessagesCall ==
    /\ handler = "idle"
    /\ \E scenario_path \in ScenarioArgs :
          /\ parameters' = <<scenario_path, PyNone>>
          /\ IF scenario_path = PyNone
             THEN pc' = "returned" /\ error_message' = error_message
             ELSE IF scenario_path \notin disk
             THEN pc' = "returned" /\ error_message' = ScenarioNotFound
             ELSE pc' = "radiation" /\ error_message' = error_message
    /\ handler' = "updateMessages"
    /\ UNCHANGED <<pth_exists, disk, registry, locals, helper_log, children>>
    /\ UNCHANGED <<layoutVars, cliVars>>

\* updateMessages, lines 83-84
UpdateMessagesRadiation ==
    /\ handler = "updateMessages" /\ pc = "radiation"
    /\ GetRadiation(parameters[1])
    /\ LET r == Last(helper_log') IN
          IF r.raised # None
          THEN pc' = "raised" /\ error_message' = error_message
          ELSE /\ error_message' = IF r.result \notin disk THEN NoRadiation ELSE error_message
               /\ pc' = NextAfterRadiation(r.result \notin disk)
    /\ UNCHANGED <<pth_exists, disk, registry, handler, parameters, locals>>
    /\ UNCHANGED <<layoutVars, cliVars>>

\* updateMessages, lines 85-87
UpdateMessagesSurface ==
    /\ handler = "updateMessages" /\ pc = "surface"
    /\ GetSurfaceProperties(parameters[1])
    /\ LET r == Last(helper_log') IN
          IF r.raised # None
          THEN pc' = "raised" /\ error_message' = error_message
          ELSE /\ error_message' = IF r.result \notin disk THEN NoRadiation ELSE error_message
               /\ pc' = "returned"
    /\ UNCHANGED <<pth_exists, disk, registry, handler, parameters, locals>>
    /\ UNCHANGED <<layoutVars, cliVars>>

\* getParameterInfo, lines 52-68: the filter list is get_weather_names().
GetParameterInfo ==
    /\ handler = "idle"
    /\ handler' = "getParameterInfo"
    /\ pc' = "names"
    /\ UNCHANGED <<pth_exists, disk, registry, parameters, locals, helper_log, children, error_message>>
    /\ UNCHANGED <<layoutVars, cliVars>>

\* execute, lines 90-91
ExecuteCall ==
    /\ handler = "idle"
    /\ \E scenario_path \in ScenarioArgs \ {PyNone}, weather_name \in WeatherArgs :
          parameters' = <<scenario_path, weather_name>>
    /\ handler' = "execute"
    /\ pc' = "names"
    /\ UNCHANGED <<pth_exists, disk, registry, locals, helper_log, children, error_message>>
    /\ UNCHANGED <<layoutVars, cliVars>>

\* get_weather_names, lines 113-126, from line 66 or line 92: the child's exit
\* status is never asked for.
GetWeatherNames ==
    /\ handler \in {"getParameterInfo", "execute"} /\ pc = "names"
    /\ LET exe == GetPythonExe(pth_exists) IN
       IF exe.raised # None
       THEN /\ helper_log' = Append(helper_log, Ended("get_weather_names", exe.raised, PyNone, 0))
            /\ pc' = "raised"
            /\ UNCHANGED <<children, locals>>
       ELSE \E o \in ChildOutcomes(PyNone, "weather-files", <<>>) :
               LET names == WeatherNamesOf(o.stdout) IN
               /\ children' = Append(children,
                                     [args |-> Command(exe.value, PyNone, "weather-files", <<>>),
                                      status |-> o.status, stdout |-> o.stdout])
               /\ helper_log' = Append(helper_log,
                                       Ended("get_weather_names", None, names, Len(children) + 1))
               /\ locals' = [locals EXCEPT !.names = names]
               /\ pc' = IF handler = "execute" THEN "resolve" ELSE "returned"
    /\ UNCHANGED <<pth_exists, disk, registry, handler, parameters, error_message>>
    /\ UNCHANGED <<layoutVars, cliVars>>

\* What a get_weather call leaves in weather_path, or the error it lets through.
AfterGetWeather ==
    LET r == Last(helper_log') IN
    IF r.raised # None
    THEN pc' = "raised" /\ locals' = locals
    ELSE pc' = "run_cli" /\ locals' = [locals EXCEPT !.weather_path = r.result]

\* execute, lines 92-97
ExecuteResolve ==
    /\ handler = "execute" /\ pc = "resolve"
    /\ LET weather_name == parameters[2]
           branch == ResolveBranch(weather_name, locals.names, weather_name \in disk)
       IN \/ /\ branch = "lookup"
             /\ GetWeather(LookupName(weather_name))
             /\ AfterGetWeather
          \/ /\ branch = "literal"
             /\ locals' = [locals EXCEPT !.weather_path = weather_name]
             /\ pc' = "run_cli"
             /\ UNCHANGED <<helper_log, children>>
          \/ /\ branch = "default"
             /\ GetWeather(DefaultName)
             /\ AfterGetWeather
    /\ UNCHANGED <<pth_exists, disk, registry, handler, parameters, error_message>>
    /\ UNCHANGED <<layoutVars, cliVars>>

\* execute, line 99, and run_cli up to its Popen, lines 165-173. What run_cli
\* does with the child from there on is RunCli's loop below.
ExecuteRunCli ==
    /\ handler = "execute" /\ pc = "run_cli"
    /\ LET exe == GetPythonExe(pth_exists) IN
       IF exe.raised # None
       THEN /\ helper_log' = Append(helper_log, Ended("run_cli", exe.raised, PyNone, 0))
            /\ pc' = "raised"
            /\ children' = children
       ELSE /\ children' = Append(children,
                                  [args |-> Command(exe.value, parameters[1], "demand", locals.weather_path)])
            /\ pc' = "streaming"
            /\ helper_log' = helper_log
    /\ UNCHANGED <<pth_exists, disk, registry, handler, parameters, locals, error_message>>
    /\ UNCHANGED <<layoutVars, cliVars>>

\* The world: the interpreter-path file is removed while a handler runs.
PthRemoved ==
    /\ pth_exists
    /\ handler # "idle" /\ pc \notin {"returned", "raised", "streaming"}
    /\ pth_exists' = FALSE
    /\ UNCHANGED <<disk, registry, handler, pc, parameters, locals, helper_log, children, error_message>>
    /\ UNCHANGED <<layoutVars, cliVars>>

InitTool ==
    /\ pth_exists \in BOOLEAN
    /\ disk \in DiskChoices
    /\ registry \in Registries
    /\ handler = "idle"
    /\ pc = "idle"
    /\ parameters = <<PyNone, PyNone>>
    /\ locals = [names |-> <<>>, weather_path |-> PyNone]
    /\ helper_log = <<>>
    /\ children = <<>>
    /\ error_message = None

NextTool ==
    \/ UpdateMessagesCall
    \/ UpdateMessagesRadiation
    \/ UpdateMessagesSurface
    \/ GetParameterInfo
    \/ ExecuteCall
    \/ GetWeatherNames
    \/ ExecuteResolve
    \/ ExecuteRunCli
    \/ PthRemoved

(***************************************************************************)
(* run_cli and its child process, from the Popen of line 169 on            *)
(***************************************************************************)
\* The most writes a child makes, the most lines a pipe holds before a write to
\* it blocks, and the most turns of the loop that read '' from a closed stdout
\* before poll() sees the child gone.
MaxWrites == 3
PipeCapacity == 2
MaxSpins == 1

\* What the child may write: lines to stdout and to stderr. Only the last line
\* written to stdout may lack its line end.
OutLines == {<<"a", "\n">>, <<"b", " ", "\r", "\n">>}
OpenLine == <<"c">>
ErrLines == {<<"e", "\n">>}

Writes ==
    {[fd |-> "out", line |-> l] : l \in OutLines \cup {OpenLine}}
    \cup {[fd |-> "err", line |-> l] : l \in ErrLines}

Scripts ==
    {s \in UNION {[1..n -> Writes] : n \in 0..MaxWrites} :
        \A i \in 1..Len(s), j \in 1..Len(s) :
            (i < j /\ s[i].fd = "out" /\ s[i].line = OpenLine) => s[j].fd # "out"}

HasLineEnd(line) == line # <<>> /\ Last(line) = "\n"

\* A pipe holds the lines in flight, each with the index of the write it is.
Texts(pipe) == [i \in 1..Len(pipe) |-> pipe[i].line]
Sources(pipe) == {pipe[i].src : i \in 1..Len(pipe)}

\* line 176: when the loop is left.
BreakConditionOnExit(line, gone) == gone

BreakCondition(line, gone) == line = <<>> /\ gone

\* The child writes its next line to stdout; the write blocks while the pipe is full.
ChildWritesStdout ==
    /\ ppc # "idle" /\ ~exited /\ ~stdout_closed
    /\ cpc <= Len(script) /\ script[cpc].fd = "out"
    /\ Len(stdout_pipe) < PipeCapacity
    /\ stdout_pipe' = Append(stdout_pipe, [line |-> script[cpc].line, src |-> cpc])
    /\ cpc' = cpc + 1
    /\ UNCHANGED <<script, stderr_pipe, stdout_closed, exited, ppc, next_line, messages, spins>>
    /\ UNCHANGED <<layoutVars, toolVars>>

\* The child writes its next line to stderr; the write blocks while the pipe is full.
ChildWritesStderr ==
    /\ ppc # "idle" /\ ~exited /\ ~stdout_closed
    /\ cpc <= Len(script) /\ script[cpc].fd = "err"
    /\ Len(stderr_pipe) < PipeCapacity
    /\ stderr_pipe' = Append(stderr_pipe, [line |-> script[cpc].line, src |-> cpc])
    /\ cpc' = cpc + 1
    /\ UNCHANGED <<script, stdout_pipe, stdout_closed, exited, ppc, next_line, messages, spins>>
    /\ UNCHANGED <<layoutVars, toolVars>>

\* The child is done: its ends of the pipes close ...
ChildClosesPipes ==
    /\ ppc # "idle" /\ ~stdout_closed
    /\ cpc > Len(script)
    /\ stdout_closed' = TRUE
    /\ UNCHANGED <<script, cpc, stdout_pipe, stderr_pipe, exited, ppc, next_line, messages, spins>>
    /\ UNCHANGED <<layoutVars, toolVars>>

\* ... and then poll() gives its exit status.
ChildExits ==
    /\ stdout_closed /\ ~exited
    /\ exited' = TRUE
    /\ UNCHANGED <<script, cpc, stdout_pipe, stderr_pipe, stdout_closed, ppc, next_line, messages, spins>>
    /\ UNCHANGED <<layoutVars, toolVars>>

\* line 175: process.stdout.readline() blocks until a whole line is there or
\* stdout is at its end; '' is the end.
ReadLine ==
    /\ ppc = "readline"
    /\ \/ /\ stdout_pipe # <<>>
          /\ HasLineEnd(Head(stdout_pipe).line) \/ stdout_closed
          /\ next_line' = Head(stdout_pipe)
          /\ stdout_pipe' = Tail(stdout_pipe)
       \/ /\ stdout_pipe = <<>> /\ stdout_closed
          /\ next_line' = [line |-> <<>>, src |-> 0]
          /\ stdout_pipe' = stdout_pipe
    /\ ppc' = "test"
    /\ UNCHANGED <<script, cpc, stderr_pipe, stdout_closed, exited, messages, spins>>
    /\ UNCHANGED <<layoutVars, toolVars>>

\* lines 176-177: the loop is left
LoopBreak ==
    /\ ppc = "test"
    /\ BreakCondition(next_line.line, exited)
    /\ ppc' = "communicate"
    /\ UNCHANGED <<script, cpc, stdout_pipe, stderr_pipe, stdout_closed, exited, next_line, messages, spins>>
    /\ UNCHANGED <<layoutVars, toolVars>>

\* line 178: add_message(next_line.rstrip()), and round again
LoopLog ==
    /\ ppc = "test"
    /\ ~BreakCondition(next_line.line, exited)
    /\ next_line.src = 0 => spins < MaxSpins
    /\ spins' = IF next_line.src = 0 THEN spins + 1 ELSE spins
    /\ messages' = Append(messages, [via |-> "loop", msg |-> rstrip(next_line.line),
                                     src |-> {next_line.src} \ {0}])
    /\ ppc' = "readline"
    /\ UNCHANGED <<script, cpc, stdout_pipe, stderr_pipe, stdout_closed, exited, next_line>>
    /\ UNCHANGED <<layoutVars, toolVars>>

\* lines 179-181: communicate() reads both pipes to their ends and waits for the
\* child; what it read is logged.
Communicate ==
    /\ ppc = "communicate"
    /\ stdout_closed /\ exited
    /\ messages' = messages \o
          <<[via |-> "stdout", msg |-> Concat(Texts(stdout_pipe)), src |-> Sources(stdout_pipe)],
            [via |-> "stderr", msg |-> Concat(Texts(stderr_pipe)), src |-> Sources(stderr_pipe)]>>
    /\ stdout_pipe' = <<>>
    /\ stderr_pipe' = <<>>
    /\ ppc' = "returned"
    /\ UNCHANGED <<script, cpc, stdout_closed, exited, next_line, spins>>
    /\ UNCHANGED <<layoutVars, toolVars>>

InitRunCli ==
    /\ script \in Scripts
    /\ cpc = 1
    /\ stdout_pipe = <<>>
    /\ stderr_pipe = <<>>
    /\ stdout_closed = FALSE
    /\ exited = FALSE
    /\ ppc = "readline"
    /\ next_line = [line |-> <<>>, src |-> 0]
    /\ messages = <<>>
    /\ spins = 0

NextRunCli ==
    \/ ChildWritesStdout
    \/ ChildWritesStderr
    \/ ChildClosesPipes
    \/ ChildExits
    \/ ReadLine
    \/ LoopBreak
    \/ LoopLog
    \/ Communicate

(***************************************************************************)
(* Specifications                                                          *)
(***************************************************************************)
\* A machine that is not the one at work stays as constructed.
IdleLayout == InitLayout

IdleTool ==
    /\ pth_exists = TRUE
    /\ disk = {}
    /\ registry = <<>>
    /\ handler = "idle"
    /\ pc = "idle"
    /\ parameters = <<PyNone, PyNone>>
    /\ locals = [names |-> <<>>, weather_path |-> PyNone]
    /\ helper_log = <<>>
    /\ children = <<>>
    /\ error_message = None

IdleCli ==
    /\ script = <<>>
    /\ cpc = 1
    /\ stdout_pipe = <<>>
    /\ stderr_pipe = <<>>
    /\ stdout_closed = FALSE
    /\ exited = FALSE
    /\ ppc = "idle"
    /\ next_line = [line |-> <<>>, src |-> 0]
    /\ messages = <<>>
    /\ spins = 0

LayoutInit == InitLayout /\ IdleTool /\ IdleCli

SpecLayout == LayoutInit /\ [][NextLayout]_vars

ToolInit == IdleLayout /\ InitTool /\ IdleCli

SpecTool == ToolInit /\ [][NextTool]_vars

RunCliInit == IdleLayout /\ IdleTool /\ InitRunCli

SpecRunCli == RunCliInit /\ [][NextRunCli]_vars

(***************************************************************************)
(* Properties                                                              *)
(***************************************************************************)
\* C1: a call of network_layout that completes has invoked
\* calc_substation_location, calc_connectivity_network and
\* calc_steiner_spanning_tree, each once and in that order; the substations path
\* the first stage wrote is the third argument of the second stage and of the
\* third, and the potential-network path the second stage wrote is the first
\* argument of the third.
C1_StagesInOrderWithPaths ==
    nl_pc = "returned" =>
        /\ Len(stage_calls) = 3
        /\ \A i \in 1..3 : stage_calls[i].fn = StageOrder[i]
        /\ LET sub == stage_calls[1]
               con == stage_calls[2]
               ste == stage_calls[3]
           IN /\ StageWrites(sub.fn, sub.args) = {con.args[3]}
              /\ StageWrites(sub.fn, sub.args) = {ste.args[3]}
              /\ StageWrites(con.fn, con.args) = {ste.args[1]}
              /\ {con.args[3], ste.args[1]} \subseteq written

C1_Witness ==
    /\ nl_pc = "returned"
    /\ Len(stage_calls) = 3
    /\ nl_locals.type_network = "DC"
    /\ stage_calls[3].args[3] \in written

\* C9: when a stage call fails, network_layout is left with the error: the
\* failing stage is the last one invoked, no stage is invoked twice, and the
\* files the earlier stages wrote are still there.
C9_StageFailurePropagates ==
    /\ \A i \in 1..Len(stage_calls) : stage_calls[i].fn = StageOrder[i]
    /\ nl_failed # None =>
          /\ nl_pc = "raised"
          /\ Last(stage_calls).fn = nl_failed
          /\ \A i \in 1..(Len(stage_calls) - 1) :
                StageWrites(stage_calls[i].fn, stage_calls[i].args) \subseteq written

C9_Witness ==
    /\ nl_pc = "raised"
    /\ nl_failed = StageOrder[2]
    /\ Len(stage_calls) = 2
    /\ StageWrites(stage_calls[1].fn, stage_calls[1].args) \subseteq written

\* execute has handed a weather path to the 'demand' command.
DemandHanded == handler = "execute" /\ pc = "streaming"
DemandWeather == Last(children).args.arg
WeatherQueries == {i \in 1..Len(children) : children[i].args.cmd = "weather-path"}
RegisteredNames == SeqToSet(locals.names)

\* C2: a weather argument that is one of the names get_weather_names() returned
\* is handed to 'demand' as the trimmed output of the one 'weather-path <name>'
\* query made for that name.
C2_RegisteredNameLookedUp ==
    (DemandHanded /\ parameters[2] \in RegisteredNames) =>
        /\ Last(children).args.cmd = "demand"
        /\ Cardinality(WeatherQueries) = 1
        /\ \A i \in WeatherQueries :
              /\ children[i].args.arg = parameters[2]
              /\ DemandWeather = strip(children[i].stdout)

C2_Witness ==
    /\ DemandHanded
    /\ parameters[2] = NameZ
    /\ NameZ \in RegisteredNames
    /\ DemandWeather = <<"/", "Z">> \o EPW

\* C3 as stated: a weather argument that exists on disk and ends in '.epw' is
\* handed to 'demand' unchanged.
C3_ExistingEpwUnchanged ==
    (DemandHanded /\ parameters[2] \in disk /\ endswith(parameters[2], EPW)) =>
        DemandWeather = parameters[2]

\* C3 amended: a weather argument that exists on disk, ends in '.epw' and is
\* none of the names get_weather_names() returned is handed to 'demand'
\* unchanged, and no 'weather-path' query is made.
C3_UnregisteredEpwUnchanged ==
    (/\ DemandHanded
     /\ parameters[2] \in disk /\ endswith(parameters[2], EPW)
     /\ parameters[2] \notin RegisteredNames) =>
        /\ DemandWeather = parameters[2]
        /\ WeatherQueries = {}

C3_Witness ==
    /\ DemandHanded
    /\ parameters[2] = FileA
    /\ FileA \in disk
    /\ DemandWeather = FileA

\* C4: a weather argument that is neither a returned name nor an existing path
\* ending in '.epw' is handed to 'demand' as the trimmed output of the one
\* 'weather-path default' query, which is what get_weather() asks.
C4_FallbackToDefault ==
    (/\ DemandHanded
     /\ parameters[2] \notin RegisteredNames
     /\ ~(parameters[2] \in disk /\ endswith(parameters[2], EPW))) =>
        /\ Cardinality(WeatherQueries) = 1
        /\ \A i \in WeatherQueries :
              /\ children[i].args.arg = DefaultName
              /\ DemandWeather = strip(children[i].stdout)

C4_Witness ==
    /\ DemandHanded
    /\ parameters[2] = FileB
    /\ DemandWeather = <<"/", "D">> \o EPW

\* The positions at which a handler calls a helper that shells out.
HelperCallDue ==
    \/ pc \in {"names", "radiation", "surface", "run_cli"}
    \/ /\ pc = "resolve"
       /\ ResolveBranch(parameters[2], locals.names, parameters[2] \in disk) # "literal"

\* C5: while ~/cea_python.pth is absent, a step never spawns a child, and the
\* step of every helper that shells out ends that helper with get_python_exe's
\* AssertionError, which leaves the handler.
C5_NoInterpreterNoChild ==
    [][~pth_exists =>
          /\ children' = children
          /\ HelperCallDue =>
                /\ Len(helper_log') = Len(helper_log) + 1
                /\ Last(helper_log').raised = "AssertionError"
                /\ Last(helper_log').child = 0
                /\ pc' = "raised"]_vars

C5_Witness ==
    /\ ~pth_exists
    /\ pc = "raised"
    /\ helper_log # <<>>
    /\ Last(helper_log).helper = "run_cli"
    /\ Last(helper_log).raised = "AssertionError"
    /\ Len(children) = 2

\* The check of a file was made: the helper returned its path.
Checked(helper) ==
    \E i \in 1..Len(helper_log) :
        helper_log[i].helper = helper /\ helper_log[i].raised = None

SomeFileMissing ==
    RadiationFile(parameters[1]) \notin disk \/ SurfaceFile(parameters[1]) \notin disk

\* C6 as stated: once updateMessages has ended for a scenario path, a path not on
\* disk has an error message; for one on disk both file checks were made, and
\* there is an error message when a file is missing.
C6_BothChecksAlways ==
    (handler = "updateMessages" /\ pc \in {"returned", "raised"} /\ parameters[1] # PyNone) =>
        IF parameters[1] \notin disk
        THEN error_message = ScenarioNotFound
        ELSE /\ Checked("get_radiation")
             /\ Checked("get_surface_properties")
             /\ SomeFileMissing => error_message = NoRadiation

\* C6 amended: a path not on disk has an error message. For one on disk,
\* updateMessages returns only when both query helpers returned, and then both
\* file checks were made, whatever the other found, with an error message
\* exactly when a file is missing; it ends with an error only when the helper
\* called last raised, and then the checks after it were not made.
C6_BothChecksUnlessHelperRaises ==
    (handler = "updateMessages" /\ parameters[1] # PyNone) =>
        /\ (pc = "returned" /\ parameters[1] \notin disk) =>
              error_message = ScenarioNotFound /\ helper_log = <<>>
        /\ (pc = "returned" /\ parameters[1] \in disk) =>
              /\ Len(helper_log) = 2
              /\ Checked("get_radiation")
              /\ Checked("get_surface_properties")
              /\ error_message = IF SomeFileMissing THEN NoRadiation ELSE None
        /\ pc = "raised" =>
              /\ parameters[1] \in disk
              /\ Last(helper_log).raised # None
              /\ \A i \in 1..(Len(helper_log) - 1) : helper_log[i].raised = None
              /\ ~Checked("get_surface_properties")

C6_Witness ==
    /\ handler = "updateMessages" /\ pc = "returned"
    /\ parameters[1] \in disk
    /\ RadiationFile(parameters[1]) \notin disk
    /\ SurfaceFile(parameters[1]) \in disk
    /\ Checked("get_radiation") /\ Checked("get_surface_properties")
    /\ error_message = NoRadiation

QueryHelpers == {"get_weather", "get_radiation", "get_surface_properties"}
QueryCalls ==
    {i \in 1..Len(helper_log) :
        helper_log[i].helper \in QueryHelpers /\ helper_log[i].child # 0}

\* C7 as stated: a query helper whose child ended, with whatever status, raised
\* nothing and returned the child's trimmed stdout.
C7_StatusNotDistinguished ==
    \A i \in QueryCalls :
        /\ helper_log[i].raised = None
        /\ helper_log[i].result = strip(children[helper_log[i].child].stdout)

\* C7 amended: a query helper whose child exited with status zero raised nothing
\* and returned the child's trimmed stdout; one whose child exited with another
\* status raised check_output's CalledProcessError and returned nothing, and
\* the error left the handler.
C7_NonZeroStatusRaises ==
    \A i \in QueryCalls :
        LET child == children[helper_log[i].child] IN
        IF child.status = 0
        THEN /\ helper_log[i].raised = None
             /\ helper_log[i].result = strip(child.stdout)
        ELSE /\ helper_log[i].raised = "CalledProcessError"
             /\ helper_log[i].result = PyNone
             /\ i = Len(helper_log) /\ pc = "raised"

C7_Witness ==
    \E i \in QueryCalls :
        /\ children[helper_log[i].child].status # 0
        /\ children[helper_log[i].child].stdout # <<>>
        /\ helper_log[i].helper = "get_radiation"
        /\ helper_log[i].raised = "CalledProcessError"

\* The writes of the child to stdout, and the calls of add_message that carry
\* the line of write k.
StdoutWrites == {k \in 1..Len(script) : script[k].fd = "out"}
Deliveries(k) == {i \in 1..Len(messages) : k \in messages[i].src}

\* C8 as stated: when run_cli has returned for a child that wrote a line to
\* stdout, some stdout line reached add_message more than once.
C8_SomeLineLoggedTwice ==
    (ppc = "returned" /\ StdoutWrites # {}) =>
        \E k \in StdoutWrites : Cardinality(Deliveries(k)) > 1

\* C8 amended: when run_cli has returned, every stdout line reached add_message
\* exactly once, from the loop, rstrip()ped and in the order written; the stdout
\* that communicate() collected is empty, so that the message logged for it
\* repeats no line, and the stderr lines are logged once, after the loop.
C8_EachLineLoggedOnce ==
    ppc = "returned" =>
        /\ \A k \in 1..Len(script) : Cardinality(Deliveries(k)) = 1
        /\ \A k \in StdoutWrites : \A i \in Deliveries(k) :
              /\ messages[i].via = "loop"
              /\ messages[i].msg = rstrip(script[k].line)
              /\ \A k2 \in StdoutWrites : \A i2 \in Deliveries(k2) : k < k2 => i < i2
        /\ messages[Len(messages) - 1].via = "stdout"
        /\ messages[Len(messages) - 1].msg = <<>>
        /\ messages[Len(messages)].via = "stderr"
        /\ messages[Len(messages)].src = {k \in 1..Len(script) : script[k].fd = "err"}

C8_Witness ==
    /\ ppc = "returned"
    /\ Cardinality(StdoutWrites) = 2
    /\ Len(script) = 3
    /\ spins = 1
    /\ messages[Len(messages)].msg # <<>>

\* C10 as stated: run_cli never waits for ever: until it has returned, the
\* parent or the child can take a step.
C10_RunCliNeverStuck == ppc = "returned" \/ ENABLED NextRunCli

=============================================================================
